---- MODULE Spec2Model ----
(***************************************************************************)
(* Model of the response encoding code of src/mjolnir/legal_speed.h:       *)
(*   - serializePbf (field selection, request-echo detach/reattach),       *)
(*   - route_references / openlr (linear references), openlr_edges,        *)
(*   - road_class_to_fow.                                                  *)
(*   - SimpleLegalSpeed, SimpleLegalSpeedAssigner::update_speed.           *)
(* Four specifications share the variables; each one leaves the            *)
(* variables of the others untouched.                                      *)
(*   SpecPbf : serializePbf called up to MaxCalls times on one Api object  *)
(*   SpecLR  : route_references and openlr applied to one route            *)
(*   SpecFow : road_class_to_fow applied to one edge                       *)
(*   SpecSpeed : update_speed applied to one edge under one config         *)
(***************************************************************************)
EXTENDS Integers, Sequences, FiniteSets, TLC

VARIABLES
  request,     \* the valhalla::Api object handed to serializePbf
  calls,       \* history: one record per finished serializePbf call
  options,     \* the Options of the linear-reference request
  route,       \* the TripRoute whose legs are encoded
  route_json,  \* the json map route_references writes into
  writer,      \* the token stream openlr writes into
  lr_done,     \* which of route_references / openlr have run
  leg_refs,    \* per leg, the result of openlr_edges, <<>> before the call
  edge,        \* the TripLeg::Edge handed to road_class_to_fow
  fow,         \* the result of road_class_to_fow, <<>> before the call
  legal_speeds_file,  \* the parsed json config: admin code -> array of entries
  legal_speeds_map_,  \* SimpleLegalSpeedAssigner::legal_speeds_map_
  directededge,       \* the DirectedEdge handed to update_speed
  updated      \* <<>>, or the record of the finished update_speed call

vars == <<request, calls, options, route, route_json, writer, lr_done, leg_refs,
          edge, fow, legal_speeds_file, legal_speeds_map_, directededge, updated>>

pbf_vars == <<request, calls>>
lr_vars == <<options, route, route_json, writer, lr_done, leg_refs>>
fow_vars == <<edge, fow>>
speed_vars == <<legal_speeds_file, legal_speeds_map_, directededge, updated>>

-----------------------------------------------------------------------------
(* Bounds *)

MaxCalls == 2

MaxLegs == 2

MaxEdges == 2

-----------------------------------------------------------------------------
(* Options, PbfFieldSelector, Api *)

\* Options::Action values: the ones serializePbf maps, and others it does not.
PbfActions ==
  {"route", "centroid", "optimized_route", "trace_route", "trace_attributes",
   "status", "sources_to_targets"}

Actions == PbfActions \cup {"no_action", "locate", "isochrone"}

Fields == {"trip", "directions", "status", "matrix", "options"}

\* A default-constructed PbfFieldSelector: every flag false.
DefaultSelector ==
  [trip |-> FALSE, directions |-> FALSE, status |-> FALSE, matrix |-> FALSE,
   options |-> FALSE]

Selectors == [Fields -> BOOLEAN]

\* A default-constructed Options message (also what request.options() reads
\* when the options field is absent).
DefaultOptions ==
  [action |-> "no_action", has_pbf_field_selector |-> FALSE,
   pbf_field_selector |-> DefaultSelector, linear_references |-> FALSE]

DefaultInfo == [is_service |-> FALSE]

\* The top-level fields of Api that serializePbf reads or writes.
MkApi(ho, o, t, d, s, m, hi, i) ==
  [has_options |-> ho, options |-> o, has_trip |-> t, has_directions |-> d,
   has_status |-> s, has_matrix |-> m, has_info |-> hi, info |-> i]

\* request.clear_trip() and its siblings.
clear_trip(req) == [req EXCEPT !.has_trip = FALSE]

clear_directions(req) == [req EXCEPT !.has_directions = FALSE]

clear_status(req) == [req EXCEPT !.has_status = FALSE]

clear_matrix(req) == [req EXCEPT !.has_matrix = FALSE]

clear_options(req) == [req EXCEPT !.has_options = FALSE, !.options = DefaultOptions]

\* request.mutable_options()->Swap(&dummy): the field becomes present and the
\* two messages exchange their contents.
SwapOptions(req, dummy) ==
  [request |-> [req EXCEPT !.has_options = TRUE, !.options = dummy],
   dummy |-> req.options]

\* request.SerializeAsString(): the bytes carry exactly the fields present in
\* the message, and the contents of options when present.
SerializeAsString(req) ==
  [fields |-> {f \in Fields \cup {"info"} :
                 \/ f = "trip" /\ req.has_trip
                 \/ f = "directions" /\ req.has_directions
                 \/ f = "status" /\ req.has_status
                 \/ f = "matrix" /\ req.has_matrix
                 \/ f = "options" /\ req.has_options
                 \/ f = "info" /\ req.has_info},
   options |-> req.options]

-----------------------------------------------------------------------------
(* serializePbf *)

InferSelection_NoThrow(req) ==
  LET selection == req.options.pbf_field_selector
      action == req.options.action
  IN  IF ~req.options.has_pbf_field_selector
      THEN CASE action \in {"route", "centroid", "optimized_route", "trace_route"} ->
                  [thrown |-> FALSE, selection |-> [selection EXCEPT !.directions = TRUE]]
             [] action = "trace_attributes" ->
                  [thrown |-> FALSE, selection |-> [selection EXCEPT !.trip = TRUE]]
             [] action = "status" ->
                  [thrown |-> FALSE, selection |-> [selection EXCEPT !.status = TRUE]]
             [] action = "sources_to_targets" ->
                  [thrown |-> FALSE, selection |-> [selection EXCEPT !.matrix = TRUE]]
             [] OTHER -> [thrown |-> FALSE, selection |-> selection]
      ELSE [thrown |-> FALSE, selection |-> selection]

InferSelection_StatusAsTrip(req) ==
  LET selection == req.options.pbf_field_selector
      action == req.options.action
  IN  IF ~req.options.has_pbf_field_selector
      THEN CASE action \in {"route", "centroid", "optimized_route", "trace_route"} ->
                  [thrown |-> FALSE, selection |-> [selection EXCEPT !.directions = TRUE]]
             [] action \in {"trace_attributes", "status"} ->
                  [thrown |-> FALSE, selection |-> [selection EXCEPT !.trip = TRUE]]
             [] action = "sources_to_targets" ->
                  [thrown |-> FALSE, selection |-> [selection EXCEPT !.matrix = TRUE]]
             [] OTHER -> [thrown |-> TRUE, selection |-> selection]
      ELSE [thrown |-> FALSE, selection |-> selection]

\* Lines 480-505: the selection is the explicit one, or is inferred from the
\* action; the default case of the switch throws std::logic_error.
InferSelection(req) ==
  LET selection == req.options.pbf_field_selector
      action == req.options.action
  IN  IF ~req.options.has_pbf_field_selector
      THEN CASE action \in {"route", "centroid", "optimized_route", "trace_route"} ->
                  [thrown |-> FALSE, selection |-> [selection EXCEPT !.directions = TRUE]]
             [] action = "trace_attributes" ->
                  [thrown |-> FALSE, selection |-> [selection EXCEPT !.trip = TRUE]]
             [] action = "status" ->
                  [thrown |-> FALSE, selection |-> [selection EXCEPT !.status = TRUE]]
             [] action = "sources_to_targets" ->
                  [thrown |-> FALSE, selection |-> [selection EXCEPT !.matrix = TRUE]]
             [] OTHER -> [thrown |-> TRUE, selection |-> selection]
      ELSE [thrown |-> FALSE, selection |-> selection]

SkipOptions_Never(req) == FALSE

\* Lines 508-509.
SkipOptions(req) ==
  ~req.options.pbf_field_selector.options /\ req.has_info /\ req.info.is_service

\* Lines 516-525: clear every substructure the selection does not keep.
ClearUnselected(req, selection) ==
  LET r1 == IF ~selection.trip THEN clear_trip(req) ELSE req
      r2 == IF ~selection.directions THEN clear_directions(r1) ELSE r1
      r3 == IF ~selection.status THEN clear_status(r2) ELSE r2
      r4 == IF ~selection.options THEN clear_options(r3) ELSE r3
      r5 == IF ~selection.matrix THEN clear_matrix(r4) ELSE r4
  IN  r5

Reattach_Dropped(req, dummy, skip_options) == req

\* Lines 531-533: swap the detached options back in.
Reattach(req, dummy, skip_options) ==
  IF skip_options THEN SwapOptions(req, dummy).request ELSE req

serializePbf_ClearFirst(req, serialize_throws) ==
  LET inferred == InferSelection(req)
      selection == inferred.selection
      skip_options == SkipOptions(req)
      detached == IF skip_options THEN SwapOptions(req, DefaultOptions)
                  ELSE [request |-> req, dummy |-> DefaultOptions]
      cleared == ClearUnselected(detached.request, selection)
  IN  IF inferred.thrown
      THEN [request |-> cleared, outcome |-> "logic_error", bytes |-> <<>>]
      ELSE IF serialize_throws
      THEN [request |-> cleared, outcome |-> "bad_alloc", bytes |-> <<>>]
      ELSE [request |-> Reattach(cleared, detached.dummy, skip_options),
            outcome |-> "ok", bytes |-> <<SerializeAsString(cleared)>>]

\* Lines 478-536.  serialize_throws: SerializeAsString allocates the result
\* string and can fail with std::bad_alloc; nothing in serializePbf catches
\* it, so the function is left at line 528 with dummy destroyed.
serializePbf(req, serialize_throws) ==
  LET inferred == InferSelection(req)
      selection == inferred.selection
  IN  IF inferred.thrown
      THEN [request |-> req, outcome |-> "logic_error", bytes |-> <<>>]
      ELSE LET skip_options == SkipOptions(req)
               detached == IF skip_options THEN SwapOptions(req, DefaultOptions)
                           ELSE [request |-> req, dummy |-> DefaultOptions]
               cleared == ClearUnselected(detached.request, selection)
           IN  IF serialize_throws
               THEN [request |-> cleared, outcome |-> "bad_alloc", bytes |-> <<>>]
               ELSE [request |-> Reattach(cleared, detached.dummy, skip_options),
                     outcome |-> "ok", bytes |-> <<SerializeAsString(cleared)>>]

-----------------------------------------------------------------------------
(* Edges, legs, routes *)

\* valhalla::RoadClass in ordinal order, kMotorway = 0.
RoadClasses ==
  <<"kMotorway", "kTrunk", "kPrimary", "kSecondary", "kTertiary", "kUnclassified",
    "kResidential", "kServiceOther">>

\* static_cast<uint8_t>(edge.road_class())
RoadClassOrdinal(rc) == (CHOOSE i \in 1..Len(RoadClasses) : RoadClasses[i] = rc) - 1

Uses == {"kRoadUse", "kRampUse", "kTurnChannelUse", "kLivingStreetUse"}

Traversabilities == {"kNone", "kForward", "kBackward", "kBoth"}

kMetersPerKm == 1000

MkEdge(rb, u, rc, tr, b, e, km) ==
  [roundabout |-> rb, use |-> u, road_class |-> rc, traversability |-> tr,
   begin_shape_index |-> b, end_shape_index |-> e, length_km |-> km]

\* A default-constructed TripLeg::Edge (what node.edge() reads when absent).
DefaultEdge == MkEdge(FALSE, "kRoadUse", "kMotorway", "kNone", 0, 0, 0)

road_class_to_fow_MotorwayFirst(e) ==
  IF e.road_class = "kMotorway" THEN "MOTORWAY"
  ELSE IF e.roundabout THEN "ROUNDABOUT"
  ELSE IF e.use = "kRampUse" \/ e.use = "kTurnChannelUse" THEN "SLIPROAD"
  ELSE IF e.traversability = "kBoth" THEN "MULTIPLE_CARRIAGEWAY"
  ELSE IF e.traversability # "kNone" THEN "SINGLE_CARRIAGEWAY"
  ELSE "OTHER"

\* Lines 322-337.
road_class_to_fow(e) ==
  IF e.roundabout THEN "ROUNDABOUT"
  ELSE IF e.use = "kRampUse" \/ e.use = "kTurnChannelUse" THEN "SLIPROAD"
  ELSE IF e.road_class = "kMotorway" THEN "MOTORWAY"
  ELSE IF e.traversability = "kBoth" THEN "MULTIPLE_CARRIAGEWAY"
  ELSE IF e.traversability # "kNone" THEN "SINGLE_CARRIAGEWAY"
  ELSE "OTHER"

\* midgard::decode of the leg's encoded polyline: the encoding stores the
\* first point and then the difference of each point to its predecessor.
RECURSIVE decode(_)
decode(enc) ==
  IF enc = <<>> THEN <<>>
  ELSE LET prefix == decode(SubSeq(enc, 1, Len(enc) - 1))
           d == enc[Len(enc)]
       IN  IF prefix = <<>> THEN <<[lng |-> d.lng, lat |-> d.lat]>>
           ELSE Append(prefix, [lng |-> prefix[Len(prefix)].lng + d.lng,
                                lat |-> prefix[Len(prefix)].lat + d.lat])

\* midgard::tangent_angle(index, point, shape, sample_distance, forward,
\* first_segment_index, last_segment_index): the bearing is kept as the term
\* of its arguments that decide it.
tangent_angle(index, point, shape, sample_distance, forward, first, last) ==
  [index |-> index, sample_distance |-> sample_distance, forward |-> forward,
   first |-> first, last |-> last]

\* baldr::OpenLR::OpenLr{lrps, 0, 0}.toBase64(): the string stands for the
\* reference it encodes.
toBase64(openlr_ref) == [base64 |-> openlr_ref]

EdgeReference_DistanceKm(e, shape) ==
  LET fow_ == road_class_to_fow(e)
      frc == RoadClassOrdinal(e.road_class)
      begin_index == e.begin_shape_index
      end_index == e.end_shape_index
      start == shape[begin_index + 1]
      forward_heading == tangent_angle(begin_index, start, shape, 20, TRUE,
                                       begin_index, end_index)
      end == shape[end_index + 1]
      reverse_heading == tangent_angle(end_index, end, shape, 20, FALSE,
                                       begin_index, end_index)
      lrp1 == [lng |-> start.lng, lat |-> start.lat, bearing |-> forward_heading,
               frc |-> frc, fow |-> fow_, prev |-> 0,
               distance |-> e.length_km, lfrcnp |-> frc]
      lrp2 == [lng |-> end.lng, lat |-> end.lat, bearing |-> reverse_heading,
               frc |-> frc, fow |-> fow_, prev |-> 1]
  IN  toBase64([lrps |-> <<lrp1, lrp2>>, poff |-> 0, noff |-> 0])

\* Lines 350-369: the reference of one edge.  shape is 0-indexed in the code.
EdgeReference(e, shape) ==
  LET fow_ == road_class_to_fow(e)
      frc == RoadClassOrdinal(e.road_class)
      begin_index == e.begin_shape_index
      end_index == e.end_shape_index
      start == shape[begin_index + 1]
      forward_heading == tangent_angle(begin_index, start, shape, 20, TRUE,
                                       begin_index, end_index)
      end == shape[end_index + 1]
      reverse_heading == tangent_angle(end_index, end, shape, 20, FALSE,
                                       begin_index, end_index)
      lrp1 == [lng |-> start.lng, lat |-> start.lat, bearing |-> forward_heading,
               frc |-> frc, fow |-> fow_, prev |-> 0,
               distance |-> e.length_km * kMetersPerKm, lfrcnp |-> frc]
      lrp2 == [lng |-> end.lng, lat |-> end.lat, bearing |-> reverse_heading,
               frc |-> frc, fow |-> fow_, prev |-> 1]
  IN  toBase64([lrps |-> <<lrp1, lrp2>>, poff |-> 0, noff |-> 0])

RECURSIVE openlr_nodes_NoBreak(_, _)
openlr_nodes_NoBreak(nodes, shape) ==
  IF nodes = <<>> THEN <<>>
  ELSE <<EdgeReference(Head(nodes).edge, shape)>>
         \o openlr_nodes_NoBreak(Tail(nodes), shape)

\* Lines 345-370: the loop over the nodes, left at the first node without edge.
RECURSIVE openlr_nodes(_, _)
openlr_nodes(nodes, shape) ==
  IF nodes = <<>> THEN <<>>
  ELSE IF ~Head(nodes).has_edge THEN <<>>
  ELSE <<EdgeReference(Head(nodes).edge, shape)>> \o openlr_nodes(Tail(nodes), shape)

\* Lines 339-372.
openlr_edges(leg) == openlr_nodes(leg.node, decode(leg.shape))

-----------------------------------------------------------------------------
(* route_references and openlr *)

linear_reference_AnyTrace(opts) ==
  opts.linear_references /\
    (opts.action = "trace_route" \/ opts.action = "route"
       \/ opts.action = "trace_attributes")

\* Lines 427-429.
linear_reference(opts) ==
  opts.linear_references /\ (opts.action = "trace_route" \/ opts.action = "route")

RECURSIVE references_of_LastLegFirst(_)
references_of_LastLegFirst(legs) ==
  IF legs = <<>> THEN <<>>
  ELSE references_of_LastLegFirst(Tail(legs)) \o openlr_edges(Head(legs))

\* Lines 433-440: every leg's references appended in turn.
RECURSIVE references_of(_)
references_of(legs) ==
  IF legs = <<>> THEN <<>>
  ELSE openlr_edges(Head(legs)) \o references_of(Tail(legs))

\* Lines 426-442.
route_references(json, rt, opts) ==
  IF ~linear_reference(opts) THEN json
  ELSE [json EXCEPT !.has_linear_references = TRUE,
                    !.linear_references = references_of(rt.legs)]

RECURSIVE write_values(_)
write_values(refs) ==
  IF refs = <<>> THEN <<>>
  ELSE <<[token |-> "value", value |-> Head(refs)]>> \o write_values(Tail(refs))

RECURSIVE write_legs(_)
write_legs(legs) ==
  IF legs = <<>> THEN <<>>
  ELSE write_values(openlr_edges(Head(legs))) \o write_legs(Tail(legs))

\* Lines 444-457.  api_trip_routes is api.trip().routes(), 0-indexed in the code.
openlr(opts, api_trip_routes, route_index, w) ==
  IF ~opts.linear_references \/ (opts.action # "trace_route" /\ opts.action # "route")
  THEN w
  ELSE w \o <<[token |-> "start_array", key |-> "linear_references"]>>
         \o write_legs(api_trip_routes[route_index + 1].legs)
         \o <<[token |-> "end_array"]>>

-----------------------------------------------------------------------------
(* Legal speeds: parseOSMSpeedString, SimpleLegalSpeed, update_speed *)

\* A std::string is the sequence of its characters.
DigitValue ==
  [c \in {"0", "1", "2", "3", "4", "5", "6", "7", "8", "9"} |->
     CASE c = "0" -> 0 [] c = "1" -> 1 [] c = "2" -> 2 [] c = "3" -> 3 [] c = "4" -> 4
       [] c = "5" -> 5 [] c = "6" -> 6 [] c = "7" -> 7 [] c = "8" -> 8 [] c = "9" -> 9]

isdigit(c) == c \in DOMAIN DigitValue

\* Lines 54-61: the number of digits at the beginning of the string.
RECURSIVE LeadingDigits(_)
LeadingDigits(str) ==
  IF str = <<>> THEN 0
  ELSE IF isdigit(Head(str)) THEN 1 + LeadingDigits(Tail(str))
  ELSE 0

\* stoi of a string of digits.
RECURSIVE stoi(_)
stoi(digits) ==
  IF digits = <<>> THEN 0
  ELSE 10 * stoi(SubSeq(digits, 1, Len(digits) - 1)) + DigitValue[digits[Len(digits)]]

\* midgard::kMPHtoKPH = 1.609344, as a fraction.
kMPHtoKPHNumerator == 1609344

kMPHtoKPHDenominator == 1000000

\* Lines 47-71.
parseOSMSpeedString(str) ==
  IF str = <<>> THEN 0
  ELSE LET num_ix == LeadingDigits(str)
           speed == IF num_ix < 1
                    THEN (IF str = <<"w", "a", "l", "k">> THEN 10 ELSE 0)
                    ELSE stoi(SubSeq(str, 1, num_ix))
       IN  IF Len(str) > 3 /\ SubSeq(str, Len(str) - 2, Len(str)) = <<"m", "p", "h">>
           THEN (speed * kMPHtoKPHNumerator) \div kMPHtoKPHDenominator
           ELSE speed

\* Lines 32-45.
stringToLegalSpeedDomain(name) ==
  CASE name = "rural" -> "kRural"
    [] name = "urban" -> "kUrban"
    [] name = "motorway" -> "kMotorway"
    [] name = "living street" -> "kLivingStreet"
    [] name = "trunk" -> "kTrunk"
    [] name = "service road" -> "kService"
    [] name = "fallback" -> "kFallback"
    [] OTHER -> "kInvalid"

\* The members of SimpleLegalSpeed (lines 76-82).
Members == {"urban", "rural", "motorway", "trunk", "living_street", "service", "fallback"}

\* Lines 14-19 and 76-83: the constructor has no member initializers and
\* VehicleSpeeds() = default leaves auto_ and truck_ uninitialized, so a
\* member no entry assigns holds whatever the storage held: indeterminate is
\* that value.
UninitializedSpeeds(indeterminate) ==
  [m \in Members |-> [auto_ |-> indeterminate, truck_ |-> indeterminate]]

\* Lines 87-126: one entry of the array.  An optional json member is the empty
\* sequence or the one-element sequence of its value.
AssignEntry(ls, entry) ==
  LET domain == IF entry.name # <<>> THEN stringToLegalSpeedDomain(entry.name[1])
                ELSE "kFallback"
      truck_speed_str == IF entry.tags.maxspeed_hgv # <<>> THEN entry.tags.maxspeed_hgv[1]
                         ELSE <<>>
      speed_str == IF entry.tags.maxspeed # <<>> THEN entry.tags.maxspeed[1] ELSE <<>>
      v == [auto_ |-> parseOSMSpeedString(speed_str),
            truck_ |-> parseOSMSpeedString(truck_speed_str)]
  IN  CASE domain = "kRural" -> [ls EXCEPT !.rural = v]
        [] domain = "kUrban" -> [ls EXCEPT !.urban = v]
        [] domain = "kMotorway" -> [ls EXCEPT !.motorway = v]
        [] domain = "kLivingStreet" -> [ls EXCEPT !.living_street = v]
        [] domain = "kTrunk" -> [ls EXCEPT !.trunk = v]
        [] domain = "kService" -> [ls EXCEPT !.service = v]
        [] OTHER -> ls

RECURSIVE AssignEntries(_, _)
AssignEntries(ls, arr) ==
  IF arr = <<>> THEN ls
  ELSE AssignEntries(AssignEntry(ls, Head(arr)), Tail(arr))

\* Lines 83-128: SimpleLegalSpeed(arr).
SimpleLegalSpeed(arr, indeterminate) ==
  AssignEntries(UninitializedSpeeds(indeterminate), arr)

\* Lines 143-161: one map entry per key of the json object.
SimpleLegalSpeedAssigner(doc, indeterminate) ==
  [code \in DOMAIN doc |-> SimpleLegalSpeed(doc[code], indeterminate)]

kMaxRuralDensity == 8

\* DirectedEdge::set_speed / set_truck_speed with a speed the edge can hold.
set_speed(e, speed) == [e EXCEPT !.speed = speed]

set_truck_speed(e, truck_speed) == [e EXCEPT !.truck_speed = truck_speed]

\* One of the "auto limit, truck limit with fall back to the auto limit"
\* blocks, e.g. lines 211-219: sp is <<speed, truck_speed>>.
ApplyLimit(sp, limit) ==
  <<IF limit.auto_ # 0 THEN limit.auto_ ELSE sp[1],
    IF limit.truck_ # 0 THEN limit.truck_
    ELSE IF limit.auto_ # 0 THEN limit.auto_ ELSE sp[2]>>

\* Lines 206-270: the speeds one map entry yields for the edge.
LimitsFor(e, ls, density) ==
  LET sp0 == <<e.speed, e.truck_speed>>
      sp1 == IF density > kMaxRuralDensity THEN ApplyLimit(sp0, ls.urban)
             ELSE ApplyLimit(sp0, ls.rural)
  IN  IF e.classification = "kMotorway" THEN ApplyLimit(sp1, ls.motorway)
      ELSE IF e.use = "kLivingStreet" THEN ApplyLimit(sp1, ls.living_street)
      ELSE IF e.classification = "kTrunk" THEN ApplyLimit(sp1, ls.trunk)
      ELSE IF e.use = "kServiceRoad" THEN ApplyLimit(sp1, ls.service)
      ELSE sp1

CodePass_IgnoreType(st, map, code, density) ==
  IF code \notin DOMAIN map THEN st
  ELSE LET e == st.edge
           sp == LimitsFor(e, map[code], density)
           e1 == set_speed(e, sp[1])
           u1 == st.speeds_updated \/ e.speed # sp[1]
           e2 == set_truck_speed(e1, sp[2])
           u2 == u1 \/ e1.truck_speed # sp[2]
       IN  [edge |-> e2, speeds_updated |-> u2]

\* Lines 201-280: one iteration of the loop over the codes; st is the edge and
\* speeds_updated so far.
CodePass(st, map, code, density) ==
  IF code \notin DOMAIN map THEN st
  ELSE LET e == st.edge
           sp == LimitsFor(e, map[code], density)
           c1 == e.speed_type = "kClassified"
           e1 == IF c1 THEN set_speed(e, sp[1]) ELSE e
           u1 == IF c1 THEN st.speeds_updated \/ e.speed # sp[1] ELSE st.speeds_updated
           c2 == e1.truck_speed_type = "kClassified"
           e2 == IF c2 THEN set_truck_speed(e1, sp[2]) ELSE e1
           u2 == IF c2 THEN u1 \/ e1.truck_speed # sp[2] ELSE u1
       IN  [edge |-> e2, speeds_updated |-> u2]

\* country_code + "-" + state_code: a key is the sequence of its parts.
StateKey(country_code, state_code) == <<country_code, state_code>>

CountryKey(country_code) == <<country_code>>

update_speed_StateFirst(map, e, density, country_code, state_code) ==
  IF e.speed_type = "kTagged" /\ e.truck_speed_type = "kTagged"
  THEN [edge |-> e, ret |-> FALSE, after_country |-> e]
  ELSE LET st0 == [edge |-> e, speeds_updated |-> FALSE]
           st1 == CodePass(st0, map, StateKey(country_code, state_code), density)
           st2 == CodePass(st1, map, CountryKey(country_code), density)
       IN  [edge |-> st2.edge, ret |-> st2.speeds_updated, after_country |-> st1.edge]

\* Lines 186-283.  The result carries the edge, the return value and the edge
\* as it was between the country and the state iteration.
update_speed(map, e, density, country_code, state_code) ==
  IF e.speed_type = "kTagged" /\ e.truck_speed_type = "kTagged"
  THEN [edge |-> e, ret |-> FALSE, after_country |-> e]
  ELSE LET st0 == [edge |-> e, speeds_updated |-> FALSE]
           st1 == CodePass(st0, map, CountryKey(country_code), density)
           st2 == CodePass(st1, map, StateKey(country_code, state_code), density)
       IN  [edge |-> st2.edge, ret |-> st2.speeds_updated, after_country |-> st1.edge]

MkDirectedEdge(sp, tsp, st, tst, rc, u) ==
  [speed |-> sp, truck_speed |-> tsp, speed_type |-> st, truck_speed_type |-> tst,
   classification |-> rc, use |-> u]

IdleSpeed ==
  /\ legal_speeds_file = <<>>
  /\ legal_speeds_map_ = <<>>
  /\ directededge = MkDirectedEdge(0, 0, "kTagged", "kTagged", "kMotorway", "kRoad")
  /\ updated = <<>>

-----------------------------------------------------------------------------
(* Specification SpecPbf *)

\* The Options messages a request can carry: a selector is all-default unless
\* has_pbf_field_selector.
PbfOptions ==
  {[action |-> a, has_pbf_field_selector |-> FALSE,
    pbf_field_selector |-> DefaultSelector, linear_references |-> FALSE] :
      a \in Actions}
  \cup
  {[action |-> a, has_pbf_field_selector |-> TRUE,
    pbf_field_selector |-> s, linear_references |-> FALSE] :
      a \in Actions, s \in Selectors}

\* An absent info reads as the default Info (is_service false); an absent
\* options reads as the default Options.
Requests ==
  {MkApi(ho, IF ho THEN o ELSE DefaultOptions, t, d, s, m, hi,
         [is_service |-> hi /\ svc]) :
     ho \in BOOLEAN, o \in PbfOptions, t \in BOOLEAN, d \in BOOLEAN,
     s \in BOOLEAN, m \in BOOLEAN, hi \in BOOLEAN, svc \in BOOLEAN}

IdleLR ==
  /\ options = DefaultOptions
  /\ route = [legs |-> <<>>]
  /\ route_json = [has_linear_references |-> FALSE, linear_references |-> <<>>]
  /\ writer = <<>>
  /\ lr_done = {}
  /\ leg_refs = <<>>

IdleFow ==
  /\ edge = DefaultEdge
  /\ fow = <<>>

IdlePbf ==
  /\ request = MkApi(FALSE, DefaultOptions, FALSE, FALSE, FALSE, FALSE, FALSE, DefaultInfo)
  /\ calls = <<>>

InitPbf ==
  /\ request \in Requests
  /\ calls = <<>>
  /\ IdleLR
  /\ IdleFow
  /\ IdleSpeed

\* One call of serializePbf(request); the call is recorded in the history.
SerializePbfCall ==
  /\ Len(calls) < MaxCalls
  /\ \E serialize_throws \in BOOLEAN :
       LET res == serializePbf(request, serialize_throws)
       IN  /\ request' = res.request
           /\ calls' = Append(calls, [pre |-> request, post |-> res.request,
                                      outcome |-> res.outcome, bytes |-> res.bytes])
  /\ UNCHANGED <<lr_vars, fow_vars, speed_vars>>

NextPbf == SerializePbfCall

SpecPbf == InitPbf /\ [][NextPbf]_vars

-----------------------------------------------------------------------------
(* Specification SpecLR *)

\* The two kinds of edge the legs are made of, placed at shape indices b..e.
EdgeKind(k, b, e) ==
  IF k = 0 THEN MkEdge(FALSE, "kRoadUse", "kMotorway", "kForward", b, e, 1)
  ELSE MkEdge(TRUE, "kRoadUse", "kResidential", "kBoth", b, e, 2)

\* A leg of n edges of alternating kind, the first of kind k: n nodes with an
\* edge, then the destination node without one; the shape has n + 1 points.
LegOf(n, k) ==
  [node |-> [i \in 1..(n + 1) |->
               IF i <= n THEN [has_edge |-> TRUE, edge |-> EdgeKind((k + i) % 2, i - 1, i)]
               ELSE [has_edge |-> FALSE, edge |-> DefaultEdge]],
   shape |-> [i \in 1..(n + 1) |-> IF i = 1 THEN [lng |-> 10 * k, lat |-> 5]
                                    ELSE [lng |-> 1, lat |-> k]]]

Legs == {LegOf(n, k) : n \in 1..MaxEdges, k \in {0, 1}}

Routes ==
  {[legs |-> ls] : ls \in UNION {[1..n -> Legs] : n \in 1..MaxLegs}}

LROptions ==
  {[action |-> a, has_pbf_field_selector |-> FALSE,
    pbf_field_selector |-> DefaultSelector, linear_references |-> lr] :
      a \in Actions, lr \in BOOLEAN}

InitLR ==
  /\ options \in LROptions
  /\ route \in Routes
  /\ route_json = [has_linear_references |-> FALSE, linear_references |-> <<>>]
  /\ writer = <<>>
  /\ lr_done = {}
  /\ leg_refs = <<>>
  /\ IdlePbf
  /\ IdleFow
  /\ IdleSpeed

\* route_references(route_json, route, options)
RouteReferences ==
  /\ "route_references" \notin lr_done
  /\ route_json' = route_references(route_json, route, options)
  /\ lr_done' = lr_done \cup {"route_references"}
  /\ UNCHANGED <<options, route, writer, leg_refs, pbf_vars, fow_vars, speed_vars>>

\* openlr(api, 0, writer), where api carries options and the one route
OpenLr ==
  /\ "openlr" \notin lr_done
  /\ writer' = openlr(options, <<route>>, 0, writer)
  /\ lr_done' = lr_done \cup {"openlr"}
  /\ UNCHANGED <<options, route, route_json, leg_refs, pbf_vars, fow_vars, speed_vars>>

\* openlr_edges(leg) for every leg of the route
OpenlrEdges ==
  /\ leg_refs = <<>>
  /\ leg_refs' = [i \in 1..Len(route.legs) |-> openlr_edges(route.legs[i])]
  /\ UNCHANGED <<options, route, route_json, writer, lr_done, pbf_vars, fow_vars, speed_vars>>

NextLR == RouteReferences \/ OpenLr \/ OpenlrEdges

SpecLR == InitLR /\ [][NextLR]_vars

-----------------------------------------------------------------------------
(* Specification SpecFow *)

FowEdges ==
  {MkEdge(rb, u, RoadClasses[rc], tr, 0, 1, 1) :
     rb \in BOOLEAN, u \in Uses, rc \in 1..Len(RoadClasses), tr \in Traversabilities}

InitFow ==
  /\ edge \in FowEdges
  /\ fow = <<>>
  /\ IdlePbf
  /\ IdleLR
  /\ IdleSpeed

\* road_class_to_fow(edge)
Classify ==
  /\ fow = <<>>
  /\ fow' = <<road_class_to_fow(edge)>>
  /\ UNCHANGED <<edge, pbf_vars, lr_vars, speed_vars>>

NextFow == Classify

SpecFow == InitFow /\ [][NextFow]_vars

-----------------------------------------------------------------------------
(* Specification SpecSpeed *)

MkEntry(name, maxspeed, maxspeed_hgv) ==
  [name |-> name, tags |-> [maxspeed |-> maxspeed, maxspeed_hgv |-> maxspeed_hgv]]

\* The tags of an entry: maxspeed 30; maxspeed 50 with maxspeed:hgv "25 mph";
\* only maxspeed:hgv "walk".
TagValues ==
  {<< <<(<<"3", "0">>)>>, <<>> >>,
   << <<(<<"5", "0">>)>>, <<(<<"2", "5", " ", "m", "p", "h">>)>> >>,
   << <<>>, <<(<<"w", "a", "l", "k">>)>> >>}

\* The urban/rural part of an array: no entry, or one entry.
DensityEntries ==
  {<<>>} \cup {<<MkEntry(<<n>>, t[1], t[2])>> : n \in {"urban", "rural"}, t \in TagValues}

\* The road part of an array: no entry, one entry of a road domain, or one
\* entry without a name.
RoadEntries ==
  {<<>>, <<MkEntry(<<>>, <<(<<"3", "0">>)>>, <<>>)>>}
  \cup {<<MkEntry(<<n>>, <<(<<"3", "0">>)>>, <<(<<"2", "5", " ", "m", "p", "h">>)>>)>> :
          n \in {"motorway", "living street", "trunk", "service road"}}

Arrays == {d \o r : d \in DensityEntries, r \in RoadEntries}

\* The json documents: an array for the country, for the state, both or none.
Documents ==
  {[code \in ks |-> IF code = CountryKey("US") THEN c ELSE st] :
     ks \in SUBSET {CountryKey("US"), StateKey("US", "PA")}, c \in Arrays, st \in Arrays}

UninitializedValues == {0, 77}

DirectedEdges ==
  {MkDirectedEdge(50, 40, st, tst, rc[1], rc[2]) :
     st \in {"kTagged", "kClassified"}, tst \in {"kTagged", "kClassified"},
     rc \in {<<"kMotorway", "kRoad">>, <<"kMotorway", "kLivingStreet">>,
             <<"kTrunk", "kLivingStreet">>, <<"kTrunk", "kServiceRoad">>,
             <<"kResidential", "kServiceRoad">>, <<"kResidential", "kRoad">>}}

Densities == {kMaxRuralDensity, kMaxRuralDensity + 1}

InitSpeed ==
  /\ legal_speeds_file \in Documents
  /\ \E indeterminate \in UninitializedValues :
       legal_speeds_map_ = SimpleLegalSpeedAssigner(legal_speeds_file, indeterminate)
  /\ directededge \in DirectedEdges
  /\ updated = <<>>
  /\ IdlePbf
  /\ IdleLR
  /\ IdleFow

\* update_speed(directededge, density, "US", "PA")
UpdateSpeed ==
  /\ updated = <<>>
  /\ \E density \in Densities :
       LET res == update_speed(legal_speeds_map_, directededge, density, "US", "PA")
       IN  /\ directededge' = res.edge
           /\ updated' = <<[before |-> directededge, density |-> density,
                            country_code |-> "US", state_code |-> "PA",
                            ret |-> res.ret, after_country |-> res.after_country]>>
  /\ UNCHANGED <<legal_speeds_file, legal_speeds_map_, pbf_vars, lr_vars, fow_vars>>

NextSpeed == UpdateSpeed

SpecSpeed == InitSpeed /\ [][NextSpeed]_vars

-----------------------------------------------------------------------------
(* Properties of the linear references and of road_class_to_fow *)

\* Linear references were requested for a route or trace_route action.
ReferencesApply == options.linear_references /\ options.action \in {"route", "trace_route"}

\* openlr wrote a "linear_references" array.
WroteField ==
  \E i \in 1..Len(writer) :
    writer[i] = [token |-> "start_array", key |-> "linear_references"]

\* C1: route_references and openlr each emit a "linear_references" field if
\* and only if linear references are requested and the action is route or
\* trace_route; for any other action nothing is emitted (and the call returns).
C1_EmittedIffRequestedRouteAction ==
  /\ "route_references" \in lr_done =>
       (route_json.has_linear_references <=> ReferencesApply)
  /\ "openlr" \in lr_done =>
       /\ WroteField <=> ReferencesApply
       /\ ~ReferencesApply => writer = <<>>

C1_Witness ==
  /\ lr_done = {"route_references", "openlr"}
  /\ options.linear_references
  /\ options.action = "trace_attributes"
  /\ ~route_json.has_linear_references
  /\ writer = <<>>

\* The number of nodes of a leg that carry an edge.
EdgeCount(leg) == Cardinality({i \in 1..Len(leg.node) : leg.node[i].has_edge})

\* The leg is N nodes with an edge followed by the destination node without one.
EndsWithDestination(leg) ==
  /\ Len(leg.node) >= 1
  /\ ~leg.node[Len(leg.node)].has_edge
  /\ \A i \in 1..(Len(leg.node) - 1) : leg.node[i].has_edge

\* C2: for a leg of N edge nodes followed by the edge-less destination node,
\* openlr_edges returns exactly N reference strings.
C2_OneReferencePerEdge ==
  \A l \in 1..Len(leg_refs) :
    EndsWithDestination(route.legs[l]) =>
      Len(leg_refs[l]) = Len(route.legs[l].node) - 1

C2_Witness ==
  /\ Len(leg_refs) = 2
  /\ EndsWithDestination(route.legs[1])
  /\ Len(route.legs[1].node) = 3
  /\ Len(leg_refs[1]) = 2
  /\ Len(leg_refs[2]) = 1

\* The number of edges of the legs before leg l.
RECURSIVE EdgesBefore(_)
EdgesBefore(l) == IF l <= 1 THEN 0 ELSE EdgesBefore(l - 1) + EdgeCount(route.legs[l - 1])

\* refs lists, leg after leg, the reference of each traversed edge in order.
LegThenEdgeOrder(refs) ==
  /\ Len(refs) = EdgesBefore(Len(route.legs) + 1)
  /\ \A l \in 1..Len(route.legs) :
       \A i \in 1..EdgeCount(route.legs[l]) :
         refs[EdgesBefore(l) + i] =
           EdgeReference(route.legs[l].node[i].edge, decode(route.legs[l].shape))

\* The values openlr wrote between start_array and end_array.
WrittenValues ==
  [i \in 1..(Len(writer) - 2) |-> writer[i + 1].value]

\* C3: when linear references apply, the emitted array is the concatenation of
\* the legs' references in leg order, the i-th entry of a leg being the
\* reference of its i-th edge; its length is the sum of the legs' edge counts.
C3_LegThenEdgeOrder ==
  /\ ("route_references" \in lr_done /\ ReferencesApply) =>
       LegThenEdgeOrder(route_json.linear_references)
  /\ ("openlr" \in lr_done /\ ReferencesApply) =>
       /\ Len(writer) >= 2
       /\ writer[1] = [token |-> "start_array", key |-> "linear_references"]
       /\ writer[Len(writer)] = [token |-> "end_array"]
       /\ \A i \in 2..(Len(writer) - 1) : writer[i].token = "value"
       /\ LegThenEdgeOrder(WrittenValues)

C3_Witness ==
  /\ lr_done = {"route_references", "openlr"}
  /\ ReferencesApply
  /\ Len(route.legs) = 2
  /\ EdgeCount(route.legs[1]) = 2
  /\ EdgeCount(route.legs[2]) = 1
  /\ Len(route_json.linear_references) = 3
  /\ route_json.linear_references[1] # route_json.linear_references[3]
  /\ WrittenValues = route_json.linear_references

\* C4: road_class_to_fow is the first-match-wins chain roundabout, ramp or
\* turn channel, motorway, traversable both ways, traversable one way, none.
C4_FowPriorityChain ==
  fow # <<>> =>
    LET sliproad == edge.use \in {"kRampUse", "kTurnChannelUse"}
        motorway == edge.road_class = "kMotorway"
    IN  /\ edge.roundabout => fow[1] = "ROUNDABOUT"
        /\ (~edge.roundabout /\ sliproad) => fow[1] = "SLIPROAD"
        /\ (~edge.roundabout /\ ~sliproad /\ motorway) => fow[1] = "MOTORWAY"
        /\ (~edge.roundabout /\ ~sliproad /\ ~motorway /\ edge.traversability = "kBoth") =>
             fow[1] = "MULTIPLE_CARRIAGEWAY"
        /\ (~edge.roundabout /\ ~sliproad /\ ~motorway
              /\ edge.traversability \in {"kForward", "kBackward"}) =>
             fow[1] = "SINGLE_CARRIAGEWAY"
        /\ (~edge.roundabout /\ ~sliproad /\ ~motorway /\ edge.traversability = "kNone") =>
             fow[1] = "OTHER"

C4_Witness ==
  /\ edge.roundabout
  /\ edge.road_class = "kMotorway"
  /\ fow = <<"ROUNDABOUT">>

\* The i-th point of a leg's shape (0-indexed), from the way the polyline is
\* encoded: the first point, then one difference per further point.
RECURSIVE ShapePoint(_, _)
ShapePoint(leg, i) ==
  IF i = 0 THEN leg.shape[1]
  ELSE [lng |-> ShapePoint(leg, i - 1).lng + leg.shape[i + 1].lng,
        lat |-> ShapePoint(leg, i - 1).lat + leg.shape[i + 1].lat]

\* The ordinal of a road class: kMotorway 0 ... kServiceOther 7.
FrcOf(rc) ==
  CASE rc = "kMotorway" -> 0 [] rc = "kTrunk" -> 1 [] rc = "kPrimary" -> 2
    [] rc = "kSecondary" -> 3 [] rc = "kTertiary" -> 4 [] rc = "kUnclassified" -> 5
    [] rc = "kResidential" -> 6 [] rc = "kServiceOther" -> 7

\* C12: the chain encoded for every traversed edge has exactly two LRPs and
\* offsets 0 and 0; the start LRP lies at shape[begin_shape_index], has no
\* predecessor, a distance to next of the edge length in meters and a lowest
\* FRC to next equal to the edge's FRC; the end LRP lies at
\* shape[end_shape_index] and refers back to the start LRP; both carry the
\* edge's FOW and, as FRC, the ordinal of the edge's road class.
C12_TwoPointChain ==
  \A l \in 1..Len(leg_refs) :
    \A i \in 1..Len(leg_refs[l]) :
      LET leg == route.legs[l]
          e == leg.node[i].edge
          chain == leg_refs[l][i].base64
          first == chain.lrps[1]
          last == chain.lrps[2]
      IN  /\ Len(chain.lrps) = 2
          /\ chain.poff = 0 /\ chain.noff = 0
          /\ first.lng = ShapePoint(leg, e.begin_shape_index).lng
          /\ first.lat = ShapePoint(leg, e.begin_shape_index).lat
          /\ first.prev = 0
          /\ first.distance = 1000 * e.length_km
          /\ first.lfrcnp = FrcOf(e.road_class)
          /\ last.lng = ShapePoint(leg, e.end_shape_index).lng
          /\ last.lat = ShapePoint(leg, e.end_shape_index).lat
          /\ last.prev = 1
          /\ first.fow = road_class_to_fow(e) /\ last.fow = first.fow
          /\ first.frc = FrcOf(e.road_class) /\ last.frc = first.frc

C12_Witness ==
  /\ Len(leg_refs) >= 1
  /\ Len(leg_refs[1]) = 2
  /\ leg_refs[1][2].base64.lrps[1].distance = 2000
  /\ leg_refs[1][2].base64.lrps[1].fow = "ROUNDABOUT"
  /\ leg_refs[1][2].base64.lrps[1].frc = 6
  /\ leg_refs[1][2].base64.lrps[1].lng # leg_refs[1][2].base64.lrps[2].lng

-----------------------------------------------------------------------------
(* Properties of update_speed and SimpleLegalSpeed *)

\* The auto or the truck speed of edge b differs from that of edge a.
SpeedsDiffer(a, b) == a.speed # b.speed \/ a.truck_speed # b.truck_speed

\* Every limit of the map comes from an entry of the config, the members
\* without entry being 0.
MapFromConfigOnly ==
  legal_speeds_map_ =
    [code \in DOMAIN legal_speeds_file |->
       AssignEntries([m \in Members |-> [auto_ |-> 0, truck_ |-> 0]],
                     legal_speeds_file[code])]

\* C11 (on maps without uninitialized limits): update_speed returns true
\* exactly when the auto or truck speed after the call differs from the one
\* before.
C11_ReturnsTrueIffSpeedDiffers ==
  (updated # <<>> /\ MapFromConfigOnly) =>
    (updated[1].ret <=> SpeedsDiffer(updated[1].before, directededge))

\* The first element of a sequence of limits that is not 0, 0 if there is none.
RECURSIVE FirstNonZero(_)
FirstNonZero(limits) ==
  IF limits = <<>> THEN 0
  ELSE IF Head(limits) # 0 THEN Head(limits)
  ELSE FirstNonZero(Tail(limits))

\* The limits of map entry ls that apply to edge e, most specific first: the
\* road domain (motorway, living street, trunk, service road) if the edge is
\* in one, then urban or rural by density.
ApplicableLimits(ls, e, density) ==
  (IF e.classification = "kMotorway" THEN <<ls.motorway>>
   ELSE IF e.use = "kLivingStreet" THEN <<ls.living_street>>
   ELSE IF e.classification = "kTrunk" THEN <<ls.trunk>>
   ELSE IF e.use = "kServiceRoad" THEN <<ls.service>>
   ELSE <<>>)
  \o <<IF density > kMaxRuralDensity THEN ls.urban ELSE ls.rural>>

AutoLimits(limits) == [i \in 1..Len(limits) |-> limits[i].auto_]

\* The truck limit of a domain is its hgv limit, or else its auto limit.
TruckLimits(limits) ==
  [i \in 1..Len(limits) |->
     IF limits[i].truck_ # 0 THEN limits[i].truck_ ELSE limits[i].auto_]

\* C13: with both keys in the map, a classified speed ends as the state
\* entry's non-zero limit for the applicable domain, and only where the state
\* entry's applicable limits are zero as the value the country pass left (the
\* country entry's non-zero applicable limit, or else the speed before).
C13_StateOverridesCountry ==
  (/\ updated # <<>>
   /\ CountryKey(updated[1].country_code) \in DOMAIN legal_speeds_map_
   /\ StateKey(updated[1].country_code, updated[1].state_code) \in DOMAIN legal_speeds_map_) =>
    LET u == updated[1]
        cl == ApplicableLimits(legal_speeds_map_[CountryKey(u.country_code)],
                               u.before, u.density)
        sl == ApplicableLimits(legal_speeds_map_[StateKey(u.country_code, u.state_code)],
                               u.before, u.density)
    IN  /\ u.before.speed_type = "kClassified" =>
             /\ u.after_country.speed =
                  FirstNonZero(AutoLimits(cl) \o <<u.before.speed>>)
             /\ directededge.speed =
                  FirstNonZero(AutoLimits(sl) \o <<u.after_country.speed>>)
        /\ u.before.truck_speed_type = "kClassified" =>
             /\ u.after_country.truck_speed =
                  FirstNonZero(TruckLimits(cl) \o <<u.before.truck_speed>>)
             /\ directededge.truck_speed =
                  FirstNonZero(TruckLimits(sl) \o <<u.after_country.truck_speed>>)

C13_Witness ==
  /\ updated # <<>>
  /\ MapFromConfigOnly
  /\ DOMAIN legal_speeds_map_ = {CountryKey("US"), StateKey("US", "PA")}
  /\ updated[1].density > kMaxRuralDensity
  /\ updated[1].before.speed_type = "kClassified"
  /\ updated[1].before.classification = "kResidential"
  /\ updated[1].before.use = "kRoad"
  /\ legal_speeds_map_[CountryKey("US")].urban.auto_ = 50
  /\ legal_speeds_map_[StateKey("US", "PA")].urban.auto_ = 30
  /\ directededge.speed = 30

\* C14: a tagged auto speed and a tagged truck speed are the same after the
\* call as before; with both tagged the call returns false and leaves the
\* edge as it was.
C14_TaggedSpeedsKept ==
  updated # <<>> =>
    LET b == updated[1].before IN
    /\ b.speed_type = "kTagged" => directededge.speed = b.speed
    /\ b.truck_speed_type = "kTagged" => directededge.truck_speed = b.truck_speed
    /\ (b.speed_type = "kTagged" /\ b.truck_speed_type = "kTagged") =>
         (~updated[1].ret /\ directededge = b)

C14_Witness ==
  /\ updated # <<>>
  /\ updated[1].before.speed_type = "kTagged"
  /\ updated[1].before.truck_speed_type = "kClassified"
  /\ directededge.truck_speed # updated[1].before.truck_speed
  /\ directededge.speed = updated[1].before.speed
  /\ updated[1].ret

\* The members of SimpleLegalSpeed some entry of the array assigns.
AssignedMembers(arr) ==
  {m \in Members :
     \E i \in 1..Len(arr) :
       /\ arr[i].name # <<>>
       /\ \/ m = "urban" /\ arr[i].name[1] = "urban"
          \/ m = "rural" /\ arr[i].name[1] = "rural"
          \/ m = "motorway" /\ arr[i].name[1] = "motorway"
          \/ m = "living_street" /\ arr[i].name[1] = "living street"
          \/ m = "trunk" /\ arr[i].name[1] = "trunk"
          \/ m = "service" /\ arr[i].name[1] = "service road"}

\* The members of SimpleLegalSpeed update_speed reads for edge e.
ApplicableMembers(e, density) ==
  {IF density > kMaxRuralDensity THEN "urban" ELSE "rural"}
  \cup (IF e.classification = "kMotorway" THEN {"motorway"}
        ELSE IF e.use = "kLivingStreet" THEN {"living_street"}
        ELSE IF e.classification = "kTrunk" THEN {"trunk"}
        ELSE IF e.use = "kServiceRoad" THEN {"service"}
        ELSE {})

\* C15: a domain without entry in a code's array is "not set" (0) in the
\* SimpleLegalSpeed built from it, and when no array of the edge's codes lists
\* an entry for the domains applicable to the edge, update_speed leaves the
\* auto and truck speeds unchanged.
C15_MissingDomainIsUnset ==
  updated # <<>> =>
    /\ \A code \in DOMAIN legal_speeds_map_ :
         \A m \in Members \ AssignedMembers(legal_speeds_file[code]) :
           legal_speeds_map_[code][m] = [auto_ |-> 0, truck_ |-> 0]
    /\ (\A code \in DOMAIN legal_speeds_file :
          AssignedMembers(legal_speeds_file[code])
            \cap ApplicableMembers(updated[1].before, updated[1].density) = {}) =>
         ~SpeedsDiffer(updated[1].before, directededge)

-----------------------------------------------------------------------------
(* Properties of serializePbf *)

\* The substructure the inference keeps for an action (spec 4.4).
KeptFor(action) ==
  CASE action \in {"route", "centroid", "optimized_route", "trace_route"} -> "directions"
    [] action = "trace_attributes" -> "trip"
    [] action = "status" -> "status"
    [] action = "sources_to_targets" -> "matrix"
    [] OTHER -> "none"

\* Which of the five substructures a message holds.
Retained(req) ==
  {f \in Fields :
     \/ f = "trip" /\ req.has_trip
     \/ f = "directions" /\ req.has_directions
     \/ f = "status" /\ req.has_status
     \/ f = "matrix" /\ req.has_matrix
     \/ f = "options" /\ req.has_options}

CallIds == 1..Len(calls)

\* C5: a call without explicit field selection that returns bytes keeps, among
\* trip/directions/status/matrix/options, only the substructure its action
\* chooses (present in the bytes exactly when the response held it), service
\* call or not.
C5_InferredSelectionKeepsOne ==
  \A i \in CallIds :
    LET c == calls[i] IN
    (~c.pre.options.has_pbf_field_selector /\ c.outcome = "ok") =>
      /\ c.pre.options.action \in PbfActions
      /\ c.bytes[1].fields \cap Fields =
           {KeptFor(c.pre.options.action)} \cap Retained(c.pre)

C5_Witness ==
  \E i \in CallIds :
    LET c == calls[i] IN
    /\ ~c.pre.options.has_pbf_field_selector
    /\ c.pre.options.action = "status"
    /\ c.pre.info.is_service
    /\ Retained(c.pre) = Fields
    /\ c.outcome = "ok"
    /\ c.bytes[1].fields \cap Fields = {"status"}

\* C6 as claimed: every call whose action has no binary mapping ends in an
\* error and returns no bytes, with or without an explicit field selection.
C6_UnmappedActionAlwaysFatal ==
  \A i \in CallIds :
    LET c == calls[i] IN
    c.pre.options.action \notin PbfActions =>
      (c.outcome # "ok" /\ c.bytes = <<>>)

\* C6 amended: every call WITHOUT an explicit field selection whose action has
\* no binary mapping ends in the unsupported-action error and returns no bytes.
C6_UnmappedActionFatalWhenInferred ==
  \A i \in CallIds :
    LET c == calls[i] IN
    (c.pre.options.action \notin PbfActions /\ ~c.pre.options.has_pbf_field_selector) =>
      (c.outcome = "logic_error" /\ c.bytes = <<>>)

C6_Witness ==
  \E i \in CallIds :
    LET c == calls[i] IN
    /\ c.pre.has_options
    /\ c.pre.options.action = "locate"
    /\ ~c.pre.options.has_pbf_field_selector
    /\ c.outcome = "logic_error"

\* C7: after a call that returns normally, with options excluded by the
\* selection and the response flagged as a service call, the response's options
\* are present and equal to what they were before, and the bytes hold no options.
C7_RequestEchoRestored ==
  \A i \in CallIds :
    LET c == calls[i] IN
    (/\ c.outcome = "ok"
     /\ ~c.pre.options.pbf_field_selector.options
     /\ c.pre.has_info
     /\ c.pre.info.is_service) =>
      /\ c.pre.has_options
      /\ c.post.has_options
      /\ c.post.options = c.pre.options
      /\ "options" \notin c.bytes[1].fields

C7_Witness ==
  \E i \in CallIds :
    LET c == calls[i] IN
    /\ c.outcome = "ok"
    /\ c.pre.options.has_pbf_field_selector
    /\ ~c.pre.options.pbf_field_selector.options
    /\ c.pre.options.pbf_field_selector.trip
    /\ c.pre.has_info
    /\ c.pre.info.is_service
    /\ c.post.options = c.pre.options

\* C8: whenever a call detached the options (a service call whose selection
\* excludes them, past the selection step), the options are back in the
\* response when the call is left, whether it returns or raises.
C8_ReattachOnEveryExit ==
  \A i \in CallIds :
    LET c == calls[i] IN
    (SkipOptions(c.pre) /\ ~InferSelection(c.pre).thrown) =>
      (c.post.has_options /\ c.post.options = c.pre.options)

\* C9 as claimed, for pairs of calls in which serialization itself did not
\* fail: the second of two successive calls ends with the same outcome and the
\* same retained/cleared set as the first.
C9_SecondCallSameOutcome ==
  \A i \in CallIds :
    (i > 1 /\ calls[i - 1].outcome # "bad_alloc" /\ calls[i].outcome # "bad_alloc") =>
      /\ calls[i].outcome = calls[i - 1].outcome
      /\ Retained(calls[i].post) = Retained(calls[i - 1].post)

\* C9 amended: of two successive calls, the second leaves trip, directions,
\* status and matrix retained/cleared as the first left them.  If the first
\* raised the unsupported-action error, so does the second.  If the first
\* returned and its options survive (selected, or service call), the second,
\* unless its serialization fails, returns the same bytes and leaves the same
\* retained/cleared set.  If the first returned and cleared the options
\* (non-service call whose selection excludes them), the second raises the
\* unsupported-action error and changes nothing.
C9_SecondCallIdempotent ==
  \A i \in CallIds :
    i > 1 =>
      LET a == calls[i - 1]
          b == calls[i]
      IN  /\ Retained(b.post) \ {"options"} = Retained(a.post) \ {"options"}
          /\ a.outcome = "logic_error" =>
               (b.outcome = "logic_error" /\ b.post = a.post)
          /\ (a.outcome = "ok" /\ (a.pre.options.pbf_field_selector.options
                                   \/ (a.pre.has_info /\ a.pre.info.is_service))
              /\ b.outcome # "bad_alloc") =>
               /\ b.outcome = "ok"
               /\ b.bytes = a.bytes
               /\ Retained(b.post) = Retained(a.post)
          /\ (a.outcome = "ok" /\ ~(a.pre.options.pbf_field_selector.options
                                    \/ (a.pre.has_info /\ a.pre.info.is_service))) =>
               (b.outcome = "logic_error" /\ b.post = a.post)

C9_Witness ==
  /\ Len(calls) >= 2
  /\ calls[1].outcome = "ok"
  /\ calls[1].pre.info.is_service
  /\ ~calls[1].pre.options.has_pbf_field_selector
  /\ Retained(calls[1].pre) = Fields
  /\ calls[2].outcome = "ok"
  /\ calls[2].bytes = calls[1].bytes

\* C10: a call that raises the unsupported-action error leaves the response
\* exactly as it was before the call and produces no bytes.
C10_UnsupportedLeavesResponse ==
  \A i \in CallIds :
    LET c == calls[i] IN
    c.outcome = "logic_error" => (c.post = c.pre /\ c.bytes = <<>>)

C10_Witness ==
  \E i \in CallIds :
    LET c == calls[i] IN
    /\ c.outcome = "logic_error"
    /\ c.pre.info.is_service
    /\ Retained(c.pre) = Fields
    /\ c.post = c.pre

====
